---- MODULE Spec2Model ----
(***************************************************************************)
(* Product Landscape -> Confluence page generator                          *)
(* (scripts/generate_confluence_page.py).                                  *)
(*                                                                         *)
(* Text is modelled as a sequence of one-character strings, so that        *)
(* slug() and html.escape() are computed character by character.           *)
(* The markup returned by generate_html_body is modelled by its tree: the  *)
(* fixed template text is left out and every place where the template      *)
(* inserts a value is a field holding the inserted text or number.         *)
(***************************************************************************)
EXTENDS Integers, Sequences, FiniteSets, TLC

VARIABLES
  products,     \* list[dict] built by load_products
  locals,       \* local variables of generate_html_body, None before the call
  body,         \* value returned by generate_html_body, None before the call
  standalone,   \* value returned by generate_standalone_html, None before
  storage,      \* value returned by generate_confluence_storage, None before
  pc,           \* position of the run
  args,         \* parsed command line of main
  environ,      \* os.environ restricted to the four CONFLUENCE_* settings
  files,        \* output files written by main: option -> content
  stderr,       \* error lines printed by main / confluence_api
  exit_code,    \* process exit status, None while running
  page,         \* response of get_page held by publish_to_confluence
  put_body,     \* request body built by update_page, None before
  requests,     \* log of the calls of confluence_api: method, page and outcome
  remote        \* the remote document: [title, version]

vars == <<products, locals, body, standalone, storage, pc, args, environ, files, stderr, exit_code,
          page, put_body, requests, remote>>

None == "None"

\* ---------------------------------------------------------------------
\* Bounds of the model
\* ---------------------------------------------------------------------
MaxProducts == 2
MaxVersion == 3

\* ---------------------------------------------------------------------
\* Constants (module level tables of the script)
\* ---------------------------------------------------------------------
FUNCTION_GROUPS ==
  << <<"M", "a", "r", "k", "e", "t", "i", "n", "g">>,
     <<"S", "a", "l", "e", "s">>,
     <<"E", "n", "g", "i", "n", "e", "e", "r", "i", "n", "g">>,
     <<"C", "u", "s", "t", "o", "m", "e", "r", " ", "S", "u", "c", "c", "e", "s", "s">>,
     <<"F", "i", "n", "a", "n", "c", "e">>,
     <<"H", "R", " ", "&", " ", "P", "e", "o", "p", "l", "e">>,
     <<"O", "p", "e", "r", "a", "t", "i", "o", "n", "s">>,
     <<"D", "a", "t", "a", " ", "&", " ", "A", "n", "a", "l", "y", "t", "i", "c", "s">>,
     <<"S", "e", "c", "u", "r", "i", "t", "y">>,
     <<"I", "T", " ", "I", "n", "f", "r", "a", "s", "t", "r", "u", "c", "t", "u", "r", "e">>,
     <<"L", "e", "g", "a", "l", " ", "&", " ", "C", "o", "m", "p", "l", "i", "a", "n", "c", "e">>,
     <<"P", "r", "o", "d", "u", "c", "t">> >>

PRODUCT_TYPES ==
  << <<"P", "l", "a", "t", "f", "o", "r", "m">>,
     <<"T", "o", "o", "l">>,
     <<"S", "e", "r", "v", "i", "c", "e">>,
     <<"I", "n", "t", "e", "g", "r", "a", "t", "i", "o", "n">> >>

FAMILY_LINES ==
  << <<"E", "n", "t", "e", "r", "p", "r", "i", "s", "e", " ", "S", "u", "i", "t", "e">>,
     <<"G", "r", "o", "w", "t", "h", " ", "C", "l", "o", "u", "d">>,
     <<"A", "n", "a", "l", "y", "t", "i", "c", "s", " ", "H", "u", "b">>,
     <<"C", "o", "m", "m", "e", "r", "c", "e", " ", "E", "n", "g", "i", "n", "e">>,
     <<"W", "o", "r", "k", "f", "l", "o", "w", " ", "S", "t", "u", "d", "i", "o">>,
     <<"C", "o", "n", "n", "e", "c", "t", " ", "P", "l", "a", "t", "f", "o", "r", "m">>,
     <<"I", "d", "e", "n", "t", "i", "t", "y", " ", "S", "h", "i", "e", "l", "d">>,
     <<"D", "e", "v", "O", "p", "s", " ", "P", "i", "p", "e", "l", "i", "n", "e">>,
     <<"I", "n", "s", "i", "g", "h", "t", "s", " ", "L", "a", "b">>,
     <<"T", "a", "l", "e", "n", "t", " ", "C", "l", "o", "u", "d">>,
     <<"R", "e", "v", "e", "n", "u", "e", " ", "O", "p", "s">>,
     <<"C", "o", "m", "p", "l", "i", "a", "n", "c", "e", " ", "C", "e", "n", "t", "e", "r">> >>

FUNCTION_COLORS ==
  (<<"M", "a", "r", "k", "e", "t", "i", "n", "g">> :> "#3B82F6") @@
  (<<"S", "a", "l", "e", "s">> :> "#10B981") @@
  (<<"E", "n", "g", "i", "n", "e", "e", "r", "i", "n", "g">> :> "#6366F1") @@
  (<<"C", "u", "s", "t", "o", "m", "e", "r", " ", "S", "u", "c", "c", "e", "s", "s">> :> "#F59E0B") @@
  (<<"F", "i", "n", "a", "n", "c", "e">> :> "#EF4444") @@
  (<<"H", "R", " ", "&", " ", "P", "e", "o", "p", "l", "e">> :> "#EC4899") @@
  (<<"O", "p", "e", "r", "a", "t", "i", "o", "n", "s">> :> "#8B5CF6") @@
  (<<"D", "a", "t", "a", " ", "&", " ", "A", "n", "a", "l", "y", "t", "i", "c", "s">> :> "#06B6D4") @@
  (<<"S", "e", "c", "u", "r", "i", "t", "y">> :> "#F97316") @@
  (<<"I", "T", " ", "I", "n", "f", "r", "a", "s", "t", "r", "u", "c", "t", "u", "r", "e">> :> "#64748B") @@
  (<<"L", "e", "g", "a", "l", " ", "&", " ", "C", "o", "m", "p", "l", "i", "a", "n", "c", "e">> :> "#84CC16") @@
  (<<"P", "r", "o", "d", "u", "c", "t">> :> "#14B8A6")

TYPE_SHAPES ==
  (<<"P", "l", "a", "t", "f", "o", "r", "m">> :> "&#9632;") @@
  (<<"T", "o", "o", "l">> :> "&#9670;") @@
  (<<"S", "e", "r", "v", "i", "c", "e">> :> "&#9679;") @@
  (<<"I", "n", "t", "e", "g", "r", "a", "t", "i", "o", "n">> :> "&#10753;")

Lower ==
  ("A" :> "a") @@ ("B" :> "b") @@ ("C" :> "c") @@ ("D" :> "d") @@ ("E" :> "e") @@ ("F" :> "f") @@ ("G" :> "g") @@ ("H" :> "h") @@ ("I" :> "i") @@ ("J" :> "j") @@ ("K" :> "k") @@ ("L" :> "l") @@ ("M" :> "m") @@ ("N" :> "n") @@ ("O" :> "o") @@ ("P" :> "p") @@ ("Q" :> "q") @@ ("R" :> "r") @@ ("S" :> "s") @@ ("T" :> "t") @@ ("U" :> "u") @@ ("V" :> "v") @@ ("W" :> "w") @@ ("X" :> "x") @@ ("Y" :> "y") @@ ("Z" :> "z")
\* ---------------------------------------------------------------------
\* Generic helpers for Python built-ins
\* ---------------------------------------------------------------------
Range(s) == {s[i] : i \in DOMAIN s}

RECURSIVE Concat(_)
\* "".join(parts)
Concat(ss) == IF ss = <<>> THEN <<>> ELSE Head(ss) \o Concat(Tail(ss))

\* str.lower() on one character
LowerChar(c) == IF c \in DOMAIN Lower THEN Lower[c] ELSE c

\* str.replace(old, new) for a one-character old
ReplaceChar(s, old, new) == [i \in DOMAIN s |-> IF s[i] = old THEN new ELSE s[i]]

RECURSIVE ReplaceAmp(_)
\* str.replace(" & ", "-"): leftmost, non-overlapping occurrences
ReplaceAmp(s) ==
  IF s = <<>> THEN <<>>
  ELSE IF Len(s) >= 3 /\ SubSeq(s, 1, 3) = <<" ", "&", " ">>
       THEN <<"-">> \o ReplaceAmp(SubSeq(s, 4, Len(s)))
       ELSE <<Head(s)>> \o ReplaceAmp(Tail(s))

\* html.escape(c, quote=True) on one character
EscapeChar(c) ==
  CASE c = "&"  -> <<"&", "a", "m", "p", ";">>
    [] c = "<"  -> <<"&", "l", "t", ";">>
    [] c = ">"  -> <<"&", "g", "t", ";">>
    [] c = "\"" -> <<"&", "q", "u", "o", "t", ";">>
    [] c = "'"  -> <<"&", "#", "x", "2", "7", ";">>
    [] OTHER    -> <<c>>

\* html.escape(s)
esc(s) == Concat([i \in DOMAIN s |-> EscapeChar(s[i])])

\* slug(s): s.lower().replace(" & ", "-").replace(" ", "-").replace("/", "-")
slug(s) ==
  ReplaceChar(ReplaceChar(ReplaceAmp([i \in DOMAIN s |-> LowerChar(s[i])]),
                          " ", "-"), "/", "-")

\* Counter over the set of values instead of the list: every value counts once
Counter_of_set(ps, field) ==
  [v \in {ps[i][field] : i \in DOMAIN ps} |-> 1]

\* collections.Counter(p[field] for p in ps)
Counter(ps, field) ==
  [v \in {ps[i][field] : i \in DOMAIN ps} |->
      Cardinality({i \in DOMAIN ps : ps[i][field] = v})]

\* the marker of a failed dict lookup
KeyError == "KeyError"

\* table[key] of a dict: a missing key raises KeyError
DictGet(table, key) == IF key \in DOMAIN table THEN table[key] ELSE KeyError

\* Counter.get(x, 0) and Counter[x]: a missing key counts 0
CounterGet(c, x) == IF x \in DOMAIN c THEN c[x] ELSE 0

\* max(c.values()) if c else 1
MaxCount(c) ==
  IF DOMAIN c = {} THEN 1
  ELSE CHOOSE m \in {c[k] : k \in DOMAIN c} : \A k \in DOMAIN c : c[k] <= m

RECURSIVE FromKeys(_)
\* list(OrderedDict.fromkeys(keys)): first occurrences, in order
FromKeys(keys) ==
  IF keys = <<>> THEN <<>>
  ELSE LET init == FromKeys(SubSeq(keys, 1, Len(keys) - 1))
           last == keys[Len(keys)]
       IN IF last \in Range(init) THEN init ELSE Append(init, last)

\* [x for x in registry if any(p[field] == x for p in ps)]
InData(registry, ps, field) ==
  SelectSeq(registry, LAMBDA x : \E i \in DOMAIN ps : ps[i][field] = x)

RECURSIVE SortedDesc_unstable(_, _)
\* a descending sort that puts an element before the earlier ones of equal count
SortedDesc_unstable(xs, c) ==
  IF xs = <<>> THEN <<>>
  ELSE LET init == SortedDesc_unstable(SubSeq(xs, 1, Len(xs) - 1), c)
           last == xs[Len(xs)]
           k == Cardinality({i \in DOMAIN init :
                               \E j \in i..Len(init) :
                                  CounterGet(c, init[j]) > CounterGet(c, last)})
       IN SubSeq(init, 1, k) \o <<last>> \o SubSeq(init, k + 1, Len(init))

RECURSIVE SortedDesc(_, _)
\* sorted(xs, key=lambda x: -c.get(x, 0)): stable, count descending
SortedDesc(xs, c) ==
  IF xs = <<>> THEN <<>>
  ELSE LET init == SortedDesc(SubSeq(xs, 1, Len(xs) - 1), c)
           last == xs[Len(xs)]
           \* last goes after every element whose count is >= its own
           k == Cardinality({i \in DOMAIN init :
                               \E j \in i..Len(init) :
                                  CounterGet(c, init[j]) >= CounterGet(c, last)})
       IN SubSeq(init, 1, k) \o <<last>> \o SubSeq(init, k + 1, Len(init))

\* get_products(products, family_line, product_type): the matching list
\* elements, in input order; an element is identified by its position
get_products(ps, family_line, product_type) ==
  LET RECURSIVE Pick(_)
      Pick(i) == IF i > Len(ps) THEN <<>>
                 ELSE IF ps[i].family_line = family_line
                         /\ ps[i].product_type = product_type
                      THEN <<i>> \o Pick(i + 1)
                      ELSE Pick(i + 1)
  IN Pick(1)
\* ---------------------------------------------------------------------
\* generate_html_body
\* ---------------------------------------------------------------------

\* family lines in the order the records mention them
family_lines_discovery_order(ps) ==
  FromKeys([i \in DOMAIN ps |-> ps[i].family_line])

\* family_lines_in_data
family_lines_in_data(ps) == FromKeys(InData(FAMILY_LINES, ps, "family_line"))

\* every function group of the data, registered or not, in discovery order
function_groups_all_in_data(ps) ==
  FromKeys([i \in DOMAIN ps |-> ps[i].function_group])

\* function_groups_in_data
function_groups_in_data(ps) == FromKeys(InData(FUNCTION_GROUPS, ps, "function_group"))

\* n_types = len(set(p["product_type"] for p in products))
n_types(ps) == Cardinality({ps[i].product_type : i \in DOMAIN ps})

\* badge(product): the four places of the template that receive a field
badge(product) ==
  [ cls   |-> slug(product.function_group),
    title |-> << esc(product.name), esc(product.function_group),
                 esc(product.product_type), esc(product.family_line) >>,
    text  |-> esc(product.name) ]

\* f"{pct:.1f}" of pct = count / max_count * 100, in tenths of a percent
\* (round half to even)
FormatPct(count, max_count) ==
  LET q == (count * 1000) \div max_count
      r == (count * 1000) % max_count
  IN IF 2 * r < max_count THEN q
     ELSE IF 2 * r > max_count THEN q + 1
     ELSE IF q % 2 = 0 THEN q ELSE q + 1

\* dist_bar(label, count, max_count, color)
dist_bar(label, count, max_count, color) ==
  [ label |-> esc(label),
    width |-> IF max_count > 0 THEN FormatPct(count, max_count) ELSE 0,
    color |-> color,
    count |-> count ]

\* one <td> of the matrix: the records of the cell and what is rendered
matrix_cell(ps, fl, pt) ==
  LET cell_products == get_products(ps, fl, pt)
  IN [ items |-> cell_products,
       inner |-> IF cell_products # <<>>
                 THEN [k \in DOMAIN cell_products |-> badge(ps[cell_products[k]])]
                 ELSE <<"pl-empty">> ]

\* one <tr> of the matrix body
matrix_row(ps, fl, fl_counts) ==
  [ title |-> esc(fl),
    total |-> CounterGet(fl_counts, fl),
    cells |-> [j \in DOMAIN PRODUCT_TYPES |-> matrix_cell(ps, fl, PRODUCT_TYPES[j])] ]

\* the local variables generate_html_body computes before rendering
html_body_locals(ps) ==
  [ total                   |-> Len(ps),
    family_lines_in_data    |-> family_lines_in_data(ps),
    function_groups_in_data |-> function_groups_in_data(ps),
    fg_counts               |-> Counter(ps, "function_group"),
    type_counts             |-> Counter(ps, "product_type"),
    fl_counts               |-> Counter(ps, "family_line"),
    n_types                 |-> n_types(ps) ]

\* the three distribution columns
dist_fg(l) ==
  LET max_fg == MaxCount(l.fg_counts)
      order  == SortedDesc(l.function_groups_in_data, l.fg_counts)
  IN [i \in DOMAIN order |->
        dist_bar(order[i], CounterGet(l.fg_counts, order[i]), max_fg,
                 DictGet(FUNCTION_COLORS, order[i]))]

dist_type(l) ==
  LET max_type == MaxCount(l.type_counts)
      order    == SortedDesc(PRODUCT_TYPES, l.type_counts)
  IN [j \in DOMAIN order |->
        dist_bar(order[j], CounterGet(l.type_counts, order[j]), max_type, "#475569")]

dist_fl(l) ==
  LET max_fl == MaxCount(l.fl_counts)
      order  == SortedDesc(l.family_lines_in_data, l.fl_counts)
  IN [i \in DOMAIN order |->
        dist_bar(order[i], CounterGet(l.fl_counts, order[i]), max_fl, "#818CF8")]

\* the markup tree built from the locals
html_body_parts(ps, l) ==
  [ total      |-> l.total,
    n_families |-> Len(l.family_lines_in_data),
    n_types    |-> l.n_types,
    n_groups   |-> Len(l.function_groups_in_data),
    legend     |-> [i \in DOMAIN l.function_groups_in_data |->
                      [cls  |-> slug(l.function_groups_in_data[i]),
                       text |-> esc(l.function_groups_in_data[i])]],
    shapes     |-> [j \in DOMAIN PRODUCT_TYPES |->
                      [icon |-> DictGet(TYPE_SHAPES, PRODUCT_TYPES[j]),
                       text |-> esc(PRODUCT_TYPES[j])]],
    columns    |-> [j \in DOMAIN PRODUCT_TYPES |->
                      [icon  |-> DictGet(TYPE_SHAPES, PRODUCT_TYPES[j]),
                       title |-> esc(PRODUCT_TYPES[j]),
                       count |-> CounterGet(l.type_counts, PRODUCT_TYPES[j])]],
    rows       |-> [i \in DOMAIN l.family_lines_in_data |->
                      matrix_row(ps, l.family_lines_in_data[i], l.fl_counts)],
    dist_fg    |-> dist_fg(l),
    dist_type  |-> dist_type(l),
    dist_fl    |-> dist_fl(l),
    footer     |-> l.total ]

generate_html_body(ps) == html_body_parts(ps, html_body_locals(ps))

\* a style or icon lookup of the render failed: the call raises KeyError
RaisesKeyError(b) ==
  \/ \E i \in DOMAIN b.dist_fg : b.dist_fg[i].color = KeyError
  \/ \E j \in DOMAIN b.shapes : b.shapes[j].icon = KeyError
  \/ \E j \in DOMAIN b.columns : b.columns[j].icon = KeyError

\* generate_css: the data-driven part, one rule group per function group
generate_css ==
  [i \in DOMAIN FUNCTION_GROUPS |->
     [cls |-> slug(FUNCTION_GROUPS[i]), dot |-> FUNCTION_COLORS[FUNCTION_GROUPS[i]]]]

\* generate_standalone_html
generate_standalone_html(ps) ==
  [style |-> generate_css, body |-> generate_html_body(ps)]

\* the HTML macro wraps a body rendered before the last record was read
generate_confluence_storage_stale(ps) ==
  [css_macro |-> generate_css,
   html_macro |-> generate_html_body(SubSeq(ps, 1, Len(ps) - 1))]

\* generate_confluence_storage
generate_confluence_storage(ps) ==
  [css_macro |-> generate_css, html_macro |-> generate_html_body(ps)]

\* ---------------------------------------------------------------------
\* load_products
\* ---------------------------------------------------------------------
Whitespace == {" ", "\t"}

RECURSIVE LStrip(_)
LStrip(s) == IF s # <<>> /\ Head(s) \in Whitespace THEN LStrip(Tail(s)) ELSE s

RECURSIVE RStrip(_)
RStrip(s) == IF s # <<>> /\ s[Len(s)] \in Whitespace
             THEN RStrip(SubSeq(s, 1, Len(s) - 1)) ELSE s

\* str.strip()
Strip(s) == RStrip(LStrip(s))

\* the dict appended for one CSV row
load_row(row) ==
  [ name           |-> Strip(row.name),
    function_group |-> Strip(row.function_group),
    product_type   |-> Strip(row.product_type),
    family_line    |-> Strip(row.family_line) ]

\* CSV cells the model draws rows from
CsvNames == { <<" ", "A", "&", "<", "b", ">">> }
CsvFunctionGroups ==
  { <<"M", "a", "r", "k", "e", "t", "i", "n", "g">>,
    <<"S", "a", "l", "e", "s">>,
    <<"Q", "\"", "A", ">">> }
CsvProductTypes ==
  { <<"P", "l", "a", "t", "f", "o", "r", "m">>,
    <<"T", "o", "o", "l">>,
    <<"<", "K", "i", "t", ">">> }
CsvFamilyLines ==
  { <<"E", "n", "t", "e", "r", "p", "r", "i", "s", "e", " ", "S", "u", "i", "t", "e">>,
    <<"G", "r", "o", "w", "t", "h", " ", "C", "l", "o", "u", "d", " ">>,
    <<"L", "a", "b", "s", " ", "&", " ", "C", "o">> }
\* a row whose function group differs from a registered one only by case
CsvAliasRows ==
  { [ name           |-> <<" ", "A", "&", "<", "b", ">">>,
      function_group |-> <<"s", "a", "l", "e", "s">>,
      product_type   |-> <<"T", "o", "o", "l">>,
      family_line    |-> <<"G", "r", "o", "w", "t", "h", " ", "C", "l", "o", "u", "d", " ">> ] }
CsvRows ==
  [ name : CsvNames, function_group : CsvFunctionGroups,
    product_type : CsvProductTypes, family_line : CsvFamilyLines ]
    \cup CsvAliasRows
\* ---------------------------------------------------------------------
\* Specification of the report core: load_products, then one call of
\* generate_html_body
\* ---------------------------------------------------------------------
\* no output file written yet
NoFiles == [option \in {} |-> None]

Init ==
  /\ products = <<>>
  /\ locals = None
  /\ body = None
  /\ standalone = None
  /\ storage = None
  /\ pc = "load"
  /\ args = None
  /\ environ = None
  /\ files = NoFiles
  /\ stderr = <<>>
  /\ exit_code = None
  /\ page = None
  /\ put_body = None
  /\ requests = <<>>
  /\ remote = None

\* one iteration of the reader loop of load_products
LoadRow ==
  /\ pc = "load"
  /\ Len(products) < MaxProducts
  /\ \E row \in CsvRows : products' = Append(products, load_row(row))
  /\ UNCHANGED <<locals, body, standalone, storage, pc, args, environ, files, stderr, exit_code,
                 page, put_body, requests, remote>>

\* body = generate_html_body(products)
Render ==
  /\ pc = "load"
  /\ LET result == generate_html_body(products)
     IN IF RaisesKeyError(result)
        THEN pc' = "raised" /\ UNCHANGED <<locals, body>>
        ELSE /\ locals' = html_body_locals(products)
             /\ body' = result
             /\ pc' = "rendered"
  /\ UNCHANGED <<products, standalone, storage, args, environ, files, stderr, exit_code,
                 page, put_body, requests, remote>>

\* standalone = generate_standalone_html(products)
Standalone ==
  /\ pc = "rendered"
  /\ standalone' = generate_standalone_html(products)
  /\ pc' = "standalone"
  /\ UNCHANGED <<products, locals, body, storage, args, environ, files, stderr,
                 exit_code, page, put_body, requests, remote>>

\* storage_content = generate_confluence_storage(products)
Storage ==
  /\ pc = "standalone"
  /\ storage' = generate_confluence_storage(products)
  /\ pc' = "packaged"
  /\ UNCHANGED <<products, locals, body, standalone, args, environ, files, stderr,
                 exit_code, page, put_body, requests, remote>>

Next == LoadRow \/ Render \/ Standalone \/ Storage

Spec == Init /\ [][Next]_vars

\* ---------------------------------------------------------------------
\* Specification of the command line: main and publish_to_confluence
\* ---------------------------------------------------------------------
required_vars ==
  <<"CONFLUENCE_URL", "CONFLUENCE_PAGE_ID", "CONFLUENCE_USER", "CONFLUENCE_TOKEN">>

\* values a setting can have in the environment: unset, empty, set
EnvValues == {None, "", "x"}

\* the data source named by --csv: absent, lacking a required column, or
\* readable with the given rows
CsvFiles == {"absent", "malformed", "empty", "one_row"}

CsvContent(csv) ==
  IF csv = "one_row"
  THEN << [ name           |-> <<"A">>,
            function_group |-> <<"S", "a", "l", "e", "s">>,
            product_type   |-> <<"T", "o", "o", "l">>,
            family_line    |-> <<"G", "r", "o", "w", "t", "h", " ", "C", "l", "o", "u", "d">> ] >>
  ELSE <<>>

\* only unset settings are found, an empty value passes
missing_unset_only(env) == SelectSeq(required_vars, LAMBDA v : env[v] = None)

\* missing = [v for v in required_vars if not os.environ.get(v)]
missing(env) == SelectSeq(required_vars, LAMBDA v : env[v] = None \/ env[v] = "")

ErrorLine(error, detail) == [error |-> error, detail |-> detail]

\* an uncaught exception: traceback on stderr, exit status 1
Raise(exception) ==
  /\ stderr' = Append(stderr, ErrorLine("Traceback", exception))
  /\ exit_code' = 1
  /\ pc' = "exit"

\* sys.exit(1) after an error message
Fatal(error, detail) ==
  /\ stderr' = Append(stderr, ErrorLine(error, detail))
  /\ exit_code' = 1
  /\ pc' = "exit"

InitMain ==
  /\ products = <<>>
  /\ locals = None
  /\ body = None
  /\ standalone = None
  /\ storage = None
  /\ pc = "main"
  /\ args \in [ csv : CsvFiles, output : BOOLEAN, confluence_html : BOOLEAN,
                confluence_css : BOOLEAN, publish : BOOLEAN ]
  /\ environ \in [Range(required_vars) -> EnvValues]
  /\ files = NoFiles
  /\ stderr = <<>>
  /\ exit_code = None
  /\ page = None
  /\ put_body = None
  /\ requests = <<>>
  /\ remote = [title |-> "Product Landscape", version |-> 1]

\* main: argument parsing, existence check and load_products
MainLoad ==
  /\ pc = "main"
  /\ IF args.csv = "absent"
     THEN Fatal("CSV file not found", args.csv) /\ UNCHANGED products
     ELSE IF args.csv = "malformed"
     THEN Raise("KeyError") /\ UNCHANGED products
     ELSE /\ products' = [i \in DOMAIN CsvContent(args.csv) |->
                             load_row(CsvContent(args.csv)[i])]
          /\ pc' = "output"
          /\ UNCHANGED <<stderr, exit_code>>
  /\ UNCHANGED <<locals, body, standalone, storage, args, environ, files, page, put_body,
                 requests, remote>>

\* Path(file).write_text(content) when the option is given; the write can fail
WriteStep(option, content, next_pc) ==
  /\ IF args[option]
     THEN \E ok \in BOOLEAN :
            IF ok
            THEN /\ files' = [o \in DOMAIN files \cup {option} |->
                               IF o = option THEN content ELSE files[o]]
                 /\ pc' = next_pc
                 /\ UNCHANGED <<stderr, exit_code>>
            ELSE Raise("OSError") /\ UNCHANGED files
     ELSE /\ pc' = next_pc
          /\ UNCHANGED <<files, stderr, exit_code>>
  /\ UNCHANGED <<products, locals, body, standalone, storage, args, environ, page, put_body,
                 requests, remote>>

\* main: --output
MainOutput ==
  /\ pc = "output"
  /\ WriteStep("output", generate_standalone_html(products), "confluence_html")

\* main: --confluence-html
MainConfluenceHtml ==
  /\ pc = "confluence_html"
  /\ WriteStep("confluence_html", generate_html_body(products), "confluence_css")

\* main: --confluence-css
MainConfluenceCss ==
  /\ pc = "confluence_css"
  /\ WriteStep("confluence_css", generate_css, "publish")

\* main: --publish, the check of the settings before publish_to_confluence
MainPublish ==
  /\ pc = "publish"
  /\ IF ~args.publish
     THEN pc' = "usage" /\ UNCHANGED <<stderr, exit_code>>
     ELSE IF missing(environ) # <<>>
     THEN Fatal("Missing environment variables", missing(environ))
     ELSE pc' = "get_page" /\ UNCHANGED <<stderr, exit_code>>
  /\ UNCHANGED <<products, locals, body, standalone, storage, args, environ, files, page, put_body,
                 requests, remote>>

\* outcomes of urlopen: a response, an HTTP error status, no connection
Outcomes == {"response", "HTTPError", "URLError"}

\* confluence_api: what a failed call leaves behind; HTTPError is printed
\* and re-raised, any other exception propagates as it is
ApiFailure(outcome) ==
  /\ stderr' = IF outcome = "HTTPError"
               THEN stderr \o <<ErrorLine("Confluence API error", outcome),
                                ErrorLine("Traceback", outcome)>>
               ELSE Append(stderr, ErrorLine("Traceback", outcome))
  /\ exit_code' = 1
  /\ pc' = "exit"

\* get_page whose failure is swallowed: the run goes on with a default page
GetPage_swallow_error ==
  /\ pc = "get_page"
  /\ \E outcome \in Outcomes :
       /\ requests' = Append(requests, [method  |-> "GET",
                                        page_id |-> environ["CONFLUENCE_PAGE_ID"],
                                        outcome |-> outcome])
       /\ page' = IF outcome = "response"
                  THEN [title |-> remote.title, version |-> remote.version]
                  ELSE [title |-> "", version |-> 0]
       /\ pc' = "update_page"
  /\ UNCHANGED <<products, locals, body, standalone, storage, args, environ, files, stderr, exit_code,
                 put_body, remote>>

\* publish_to_confluence: page = get_page(page_id)
GetPage ==
  /\ pc = "get_page"
  /\ \E outcome \in Outcomes :
       /\ requests' = Append(requests, [method  |-> "GET",
                                        page_id |-> environ["CONFLUENCE_PAGE_ID"],
                                        outcome |-> outcome])
       /\ IF outcome = "response"
          THEN /\ page' = [title |-> remote.title, version |-> remote.version]
               /\ pc' = "update_page"
               /\ UNCHANGED <<stderr, exit_code>>
          ELSE ApiFailure(outcome) /\ UNCHANGED page
  /\ UNCHANGED <<products, locals, body, standalone, storage, args, environ, files, put_body, remote>>

\* the update is tagged with the version that was read, not its successor
update_body_same_version(title, storage_body, current_version) ==
  [ version |-> current_version,
    title   |-> title,
    value   |-> storage_body ]

\* update_page: the request body
update_body(title, storage_body, current_version) ==
  [ version |-> current_version + 1,
    title   |-> title,
    value   |-> storage_body ]

\* publish_to_confluence: result = update_page(...)
\* The store accepts a PUT only for the successor of its current version;
\* a rejected or failed PUT does not change the document.
UpdatePage ==
  /\ pc = "update_page"
  /\ put_body' = update_body(page.title, generate_confluence_storage(products),
                             page.version)
  /\ \E outcome \in Outcomes :
       /\ requests' = Append(requests, [method  |-> "PUT",
                                        page_id |-> environ["CONFLUENCE_PAGE_ID"],
                                        outcome |-> outcome])
       /\ outcome = "response" => put_body'.version = remote.version + 1
       /\ IF outcome = "response"
          THEN /\ remote' = [title |-> put_body'.title, version |-> put_body'.version]
               /\ pc' = "published"
               /\ UNCHANGED <<stderr, exit_code>>
          ELSE ApiFailure(outcome) /\ UNCHANGED remote
  /\ UNCHANGED <<products, locals, body, standalone, storage, args, environ, files, page>>

\* publish_to_confluence: report of the new version and the view URL
PublishDone ==
  /\ pc = "published"
  /\ pc' = "usage"
  /\ UNCHANGED <<products, locals, body, standalone, storage, args, environ, files, stderr,
                 exit_code, page, put_body, requests, remote>>

\* main: the usage hint when no option was given, then normal exit
MainUsage ==
  /\ pc = "usage"
  /\ pc' = "exit"
  /\ exit_code' = 0
  /\ UNCHANGED <<products, locals, body, standalone, storage, args, environ, files, stderr,
                 page, put_body, requests, remote>>

\* another writer updates the document while this run is publishing
OtherWriter ==
  /\ pc \in {"get_page", "update_page"}
  /\ remote.version < MaxVersion
  /\ remote' = [remote EXCEPT !.version = @ + 1]
  /\ UNCHANGED <<products, locals, body, standalone, storage, pc, args, environ, files, stderr,
                 exit_code, page, put_body, requests>>

NextMain ==
  \/ MainLoad \/ MainOutput \/ MainConfluenceHtml \/ MainConfluenceCss
  \/ MainPublish \/ GetPage \/ UpdatePage \/ PublishDone \/ MainUsage
  \/ OtherWriter

SpecMain == InitMain /\ [][NextMain]_vars

\* ---------------------------------------------------------------------
\* Properties of the report core (checked under Spec)
\* ---------------------------------------------------------------------
Rendered == pc = "rendered"

\* positions <<row, column, k>> of the badges of the rendered matrix
CellPositions(b) ==
  UNION { UNION { { <<r, c, k>> : k \in DOMAIN b.rows[r].cells[c].items }
                  : c \in DOMAIN b.rows[r].cells }
          : r \in DOMAIN b.rows }

\* the input record shown at a position
RecordAt(b, pos) == b.rows[pos[1]].cells[pos[2]].items[pos[3]]

\* sum(c.values())
RECURSIVE SumOver(_, _)
SumOver(c, keys) ==
  IF keys = {} THEN 0
  ELSE LET k == CHOOSE x \in keys : TRUE IN c[k] + SumOver(c, keys \ {k})

CounterTotal(c) == SumOver(c, DOMAIN c)

\* number of input records whose field has the value
Occurrences(ps, field, v) == Cardinality({i \in DOMAIN ps : ps[i][field] = v})

\* values of a field that occur in the input
ValuesOf(ps, field) == {ps[i][field] : i \in DOMAIN ps}

\* C1: cross-tab completeness - every input record, registered or not, is
\* shown in exactly one cell of the rendered matrix (none omitted, none
\* duplicated).
C1_CrossTabComplete ==
  Rendered =>
    \A i \in DOMAIN products :
      Cardinality({pos \in CellPositions(body) : RecordAt(body, pos) = i}) = 1

RECURSIVE Discovered(_, _, _)
\* values of a field outside the registry, in order of first appearance
Discovered(ps, field, registry) ==
  IF ps = <<>> THEN <<>>
  ELSE LET init == Discovered(SubSeq(ps, 1, Len(ps) - 1), field, registry)
           v    == ps[Len(ps)][field]
       IN IF v \in Range(registry) \/ v \in Range(init) THEN init
          ELSE Append(init, v)

\* registry categories that occur in the input, in registry order
Matched(ps, field, registry) ==
  SelectSeq(registry, LAMBDA x : x \in ValuesOf(ps, field))

\* C2: a category present in the data but absent from the registry is
\* counted and appears in the present-categories list of its dimension,
\* after the registry-matched categories, in data-discovery order.
C2_UnknownCategoriesListed ==
  Rendered =>
    /\ \A v \in ValuesOf(products, "family_line") :
         CounterGet(locals.fl_counts, v) >= 1
    /\ \A v \in ValuesOf(products, "function_group") :
         CounterGet(locals.fg_counts, v) >= 1
    /\ locals.family_lines_in_data =
         Matched(products, "family_line", FAMILY_LINES)
           \o Discovered(products, "family_line", FAMILY_LINES)
    /\ locals.function_groups_in_data =
         Matched(products, "function_group", FUNCTION_GROUPS)
           \o Discovered(products, "function_group", FUNCTION_GROUPS)

\* character references html.escape can produce
Entities ==
  { <<"&", "a", "m", "p", ";">>, <<"&", "l", "t", ";">>, <<"&", "g", "t", ";">>,
    <<"&", "q", "u", "o", "t", ";">>, <<"&", "#", "x", "2", "7", ";">> }

\* a text holds no raw <, > or ", and every & starts a character reference
Safe(t) ==
  \A i \in DOMAIN t :
    /\ t[i] \notin {"<", ">", "\""}
    /\ t[i] = "&" =>
         \E e \in Entities :
           /\ i + Len(e) - 1 <= Len(t)
           /\ SubSeq(t, i, i + Len(e) - 1) = e

\* every text the badges of the matrix insert into the markup
BadgeTexts(b) ==
  UNION { LET bd == b.rows[pos[1]].cells[pos[2]].inner[pos[3]]
          IN {bd.cls, bd.text} \cup Range(bd.title)
          : pos \in CellPositions(b) }

\* every other record- or category-derived text of the markup
LabelTexts(b) ==
  {b.legend[i].cls : i \in DOMAIN b.legend}
    \cup {b.legend[i].text : i \in DOMAIN b.legend}
    \cup {b.shapes[i].text : i \in DOMAIN b.shapes}
    \cup {b.columns[i].title : i \in DOMAIN b.columns}
    \cup {b.rows[i].title : i \in DOMAIN b.rows}
    \cup {b.dist_fg[i].label : i \in DOMAIN b.dist_fg}
    \cup {b.dist_type[i].label : i \in DOMAIN b.dist_type}
    \cup {b.dist_fl[i].label : i \in DOMAIN b.dist_fl}

\* C3: escaping safety - no <, >, & or " of a record field reaches the
\* output of generate_html_body unescaped, in any place a field is inserted
\* (badge class attribute, badge title, badge text, labels).
C3_EscapingSafety ==
  Rendered => \A t \in BadgeTexts(body) \cup LabelTexts(body) : Safe(t)

\* C4: count conservation - in each of the three dimensions the per-category
\* counts sum to len(products), values outside the registry included.
C4_CountConservation ==
  Rendered =>
    /\ CounterTotal(locals.fg_counts) = Len(products)
    /\ CounterTotal(locals.type_counts) = Len(products)
    /\ CounterTotal(locals.fl_counts) = Len(products)
    /\ \A i \in DOMAIN products :
         /\ products[i].function_group \in DOMAIN locals.fg_counts
         /\ products[i].product_type \in DOMAIN locals.type_counts
         /\ products[i].family_line \in DOMAIN locals.fl_counts

\* C4 witness: two records were counted, one of them with a function group,
\* a product type and a family line outside the registries, the other one
\* sharing a registered function group with nothing else.
C4_Witness ==
  /\ Rendered
  /\ Len(products) >= 2
  /\ \E i \in DOMAIN products :
       /\ products[i].function_group \notin Range(FUNCTION_GROUPS)
       /\ products[i].product_type \notin Range(PRODUCT_TYPES)
       /\ products[i].family_line \notin Range(FAMILY_LINES)
  /\ \E i, j \in DOMAIN products :
       i # j /\ products[i].function_group = products[j].function_group

\* records shown in column j of the matrix, over all rendered rows
ColumnRecords(b, j) ==
  UNION { Range(b.rows[r].cells[j].items) : r \in DOMAIN b.rows }

\* number of badges in column j, respectively in row r
ColumnShown(b, j) == Cardinality({pos \in CellPositions(b) : pos[2] = j})
RowShown(b, r) == Cardinality({pos \in CellPositions(b) : pos[1] = r})

\* C5: totals agree with the cells - the records in a rendered column are
\* exactly the input records of that product type and the column total is
\* their number; a row total is the number of records shown in the row.
C5_TotalsMatchCells ==
  Rendered =>
    /\ \A j \in DOMAIN body.columns :
         /\ ColumnRecords(body, j) =
              {i \in DOMAIN products : products[i].product_type = PRODUCT_TYPES[j]}
         /\ body.columns[j].count = ColumnShown(body, j)
    /\ \A r \in DOMAIN body.rows : body.rows[r].total = RowShown(body, r)

\* C6: rows are never empty - a family line without records has no row and
\* every rendered row has a non-empty cell in some product-type column.
C6_NoEmptyRow ==
  Rendered =>
    /\ \A r \in DOMAIN body.rows :
         \E i \in DOMAIN products : esc(products[i].family_line) = body.rows[r].title
    /\ \A r \in DOMAIN body.rows :
         \E c \in DOMAIN body.rows[r].cells : body.rows[r].cells[c].items # <<>>

\* permutations of 1..n
Perms(n) == {f \in [1..n -> 1..n] : \A i, j \in 1..n : f[i] = f[j] => i = j}

\* the list reordered by a permutation
Permute(s, f) == [i \in DOMAIN s |-> s[f[i]]]

\* xs lists distinct registry entries in registry order
InRegistryOrder(xs, registry) ==
  \E idx \in [DOMAIN xs -> DOMAIN registry] :
    /\ \A i \in DOMAIN xs : registry[idx[i]] = xs[i]
    /\ \A i, j \in DOMAIN xs : i < j => idx[i] < idx[j]

\* what the ordering claim observes of a render
Ordering(l, b) ==
  [ rows       |-> l.family_lines_in_data,
    legend     |-> l.function_groups_in_data,
    row_titles |-> [r \in DOMAIN b.rows |-> b.rows[r].title],
    row_totals |-> [r \in DOMAIN b.rows |-> b.rows[r].total],
    columns    |-> [j \in DOMAIN b.columns |-> b.columns[j].title],
    col_totals |-> [j \in DOMAIN b.columns |-> b.columns[j].count],
    fg_counts  |-> l.fg_counts,
    type_counts |-> l.type_counts,
    fl_counts  |-> l.fl_counts ]

\* C7: ordering stability - every permutation of the input gives the same
\* rows, legend and columns, all in registry order, and the same counts,
\* row totals and column totals.
C7_OrderingStability ==
  Rendered =>
    /\ InRegistryOrder(locals.family_lines_in_data, FAMILY_LINES)
    /\ InRegistryOrder(locals.function_groups_in_data, FUNCTION_GROUPS)
    /\ [j \in DOMAIN body.columns |-> body.columns[j].title]
         = [j \in DOMAIN PRODUCT_TYPES |-> esc(PRODUCT_TYPES[j])]
    /\ \A f \in Perms(Len(products)) :
         LET q  == Permute(products, f)
             lq == html_body_locals(q)
         IN Ordering(lq, html_body_parts(q, lq)) = Ordering(locals, body)

\* C7 witness: the input lists two registered family lines and two
\* registered function groups against registry order.
C7_Witness ==
  /\ Rendered
  /\ Len(products) >= 2
  /\ products[1].family_line = FAMILY_LINES[2]
  /\ products[2].family_line = FAMILY_LINES[1]
  /\ products[1].function_group = FUNCTION_GROUPS[2]
  /\ products[2].function_group = FUNCTION_GROUPS[1]
  /\ Len(body.rows) = 2

\* the bars of the three distributions
AllBars(b) == Range(b.dist_fg) \cup Range(b.dist_type) \cup Range(b.dist_fl)

\* categories of a dimension holding the maximum count of the input
MaxCategories(ps, field) ==
  {v \in ValuesOf(ps, field) :
     \A w \in ValuesOf(ps, field) : Occurrences(ps, field, w) <= Occurrences(ps, field, v)}

\* the distribution shows the category with a full bar (100.0%)
FullBar(dist, category) ==
  \E i \in DOMAIN dist : dist[i].label = esc(category) /\ dist[i].width = 1000

\* C8: ratio bounds - every bar is between 0 and 100 percent; when the
\* input is not empty the category with the maximum count of each dimension
\* is rendered with ratio exactly 1; for an empty input every bar is 0.
C8_RatioBounds ==
  Rendered =>
    /\ \A bar \in AllBars(body) : 0 <= bar.width /\ bar.width <= 1000
    /\ \A v \in MaxCategories(products, "function_group") : FullBar(body.dist_fg, v)
    /\ \A v \in MaxCategories(products, "product_type") : FullBar(body.dist_type, v)
    /\ \A v \in MaxCategories(products, "family_line") : FullBar(body.dist_fl, v)
    /\ products = <<>> => \A bar \in AllBars(body) : bar.width = 0


\* ---------------------------------------------------------------------
\* Properties of the command line and the publisher (checked under SpecMain)
\* ---------------------------------------------------------------------

\* settings that are unset or empty
MissingSettings == {v \in Range(required_vars) : environ[v] \in {None, ""}}

\* the error lines that report missing settings
MissingReports ==
  {i \in DOMAIN stderr : stderr[i].error = "Missing environment variables"}

\* exactly one error reports all missing settings together
AllMissingReported ==
  /\ Cardinality(MissingReports) = 1
  /\ \A i \in MissingReports :
       stderr[i].detail = SelectSeq(required_vars, LAMBDA v : v \in MissingSettings)

\* the run came as far as the --publish option: the CSV was found and
\* loaded and every requested output file was written
ReachedPublish ==
  /\ args.csv \notin {"absent", "malformed"}
  /\ \A option \in {"output", "confluence_html", "confluence_css"} :
       args[option] => option \in DOMAIN files

Calls(method) == {i \in DOMAIN requests : requests[i].method = method}

Failed(i) == requests[i].outcome # "response"

\* state part of C10
SingleShot ==
  /\ Cardinality(Calls("GET")) <= 1
  /\ Cardinality(Calls("PUT")) <= 1
  /\ \A i \in Calls("PUT") : \E j \in Calls("GET") : j < i /\ ~Failed(j)
  /\ \A i \in DOMAIN requests :
       Failed(i) => /\ i = Len(requests)
                    /\ pc = "exit"
                    /\ exit_code = 1

\* step part of C10: a failed PUT does not change the remote document
FailedPutKeepsVersion ==
  ( /\ Len(requests') = Len(requests) + 1
    /\ requests'[Len(requests')].method = "PUT"
    /\ requests'[Len(requests')].outcome # "response" ) => remote' = remote

\* C10: one publish issues at most one GET and one PUT, the PUT only after a
\* successful GET; a failed call ends the run with an error, nothing is
\* retried, and a failed PUT leaves the remote document at its prior version.
C10_RemoteFailureFatal == []SingleShot /\ [][FailedPutKeepsVersion]_vars

\* C10 witness: the GET succeeded, another writer moved the document on, the
\* PUT was rejected and the run ended with an error, the document untouched.
C10_Witness ==
  /\ Len(requests) = 2
  /\ requests[1].method = "GET" /\ requests[1].outcome = "response"
  /\ requests[2].method = "PUT" /\ requests[2].outcome = "HTTPError"
  /\ exit_code = 1
  /\ remote.version = page.version + 1
  /\ put_body.version = remote.version

\* ---------------------------------------------------------------------
\* Packaging (checked under Spec)
\* ---------------------------------------------------------------------

\* rows, columns, counts and bar proportions a structure fragment describes
Described(b) ==
  [ rows    |-> [r \in DOMAIN b.rows |-> <<b.rows[r].title, b.rows[r].total>>],
    cells   |-> [r \in DOMAIN b.rows |->
                   [c \in DOMAIN b.rows[r].cells |-> b.rows[r].cells[c].inner]],
    columns |-> [j \in DOMAIN b.columns |-> <<b.columns[j].title, b.columns[j].count>>],
    bars    |-> <<b.dist_fg, b.dist_type, b.dist_fl>>,
    total   |-> b.total ]

ProtocolOrder ==
  /\ requests # <<>> => requests[1].method = "GET"
  /\ \A i \in Calls("PUT") :
       /\ i = 2
       /\ requests[1].outcome = "response"
       /\ requests[i].page_id = requests[1].page_id
       /\ put_body.version = page.version + 1
       /\ put_body.title = page.title

\* the step is a call of the method that got a response
Responded(method) ==
  /\ Len(requests') = Len(requests) + 1
  /\ requests'[Len(requests')].method = method
  /\ requests'[Len(requests')].outcome = "response"

\* step part of C12: the page held by the run is what the GET returned and
\* no other step reads it again
PageOnlyFromGet ==
  /\ Responded("GET") => page' = [title |-> remote.title, version |-> remote.version]
  /\ ~Responded("GET") => page' = page

\* C12: publish_to_confluence first GETs the document, then PUTs the same
\* page identifier with version = fetched version + 1 and the fetched title
\* unchanged; the version is not read again between the GET and the PUT.
C12_PublishProtocol == []ProtocolOrder /\ [][PageOnlyFromGet]_vars

\* C12 witness: another writer had moved the document to version 2 before
\* the GET; the PUT carried version 3 and the same title and was accepted.
C12_Witness ==
  /\ Len(requests) = 2
  /\ requests[2].method = "PUT" /\ requests[2].outcome = "response"
  /\ requests[2].page_id = requests[1].page_id
  /\ page.version = 2
  /\ put_body.version = 3
  /\ put_body.title = page.title
  /\ remote.version = 3

\* ---------------------------------------------------------------------
\* Distribution ordering (checked under Spec)
\* ---------------------------------------------------------------------

\* position in the registry of the category a bar is labelled with
RegistryIndex(registry, label) ==
  CHOOSE k \in DOMAIN registry : esc(registry[k]) = label

\* the bars show the counts of the input, by count descending, bars of equal
\* count in registry order
DistOrdered(dist, registry, field) ==
  /\ \A i \in DOMAIN dist :
       /\ \E k \in DOMAIN registry : esc(registry[k]) = dist[i].label
       /\ dist[i].count =
            Occurrences(products, field, registry[RegistryIndex(registry, dist[i].label)])
  /\ \A i, j \in DOMAIN dist :
       i < j =>
         \/ dist[i].count > dist[j].count
         \/ /\ dist[i].count = dist[j].count
            /\ RegistryIndex(registry, dist[i].label)
                 < RegistryIndex(registry, dist[j].label)

\* C13: distribution ordering - in each of the three distributions the
\* entries are listed by count descending and entries of equal count keep
\* their registry order.
C13_DistributionOrdering ==
  Rendered =>
    /\ DistOrdered(body.dist_fg, FUNCTION_GROUPS, "function_group")
    /\ DistOrdered(body.dist_type, PRODUCT_TYPES, "product_type")
    /\ DistOrdered(body.dist_fl, FAMILY_LINES, "family_line")

\* C13 witness: two Tool records move Tool ahead of Platform, the product
\* types without records stay in registry order, and the two function groups
\* of one record each are listed in registry order although the input names
\* them the other way round.
C13_Witness ==
  /\ Rendered
  /\ Len(products) >= 2
  /\ products[1].function_group = FUNCTION_GROUPS[2]
  /\ products[2].function_group = FUNCTION_GROUPS[1]
  /\ body.dist_type[1].label = esc(PRODUCT_TYPES[2]) /\ body.dist_type[1].count = 2
  /\ body.dist_type[2].label = esc(PRODUCT_TYPES[1]) /\ body.dist_type[2].count = 0
  /\ body.dist_type[3].label = esc(PRODUCT_TYPES[3])
  /\ Len(body.dist_fg) = 2
  /\ body.dist_fg[1].label = esc(FUNCTION_GROUPS[1]) /\ body.dist_fg[1].count = 1
  /\ body.dist_fg[2].label = esc(FUNCTION_GROUPS[2]) /\ body.dist_fg[2].count = 1

\* ---------------------------------------------------------------------
\* Unknown categories (checked under Spec)
\* ---------------------------------------------------------------------

\* the colour a badge gets from the stylesheet: the rule .pl-badge.fg-<cls>
\* if generate_css wrote one, the base .pl-badge style otherwise
BadgeStyle(cls) ==
  IF \E i \in DOMAIN generate_css : generate_css[i].cls = cls
  THEN generate_css[CHOOSE i \in DOMAIN generate_css : generate_css[i].cls = cls].dot
  ELSE "neutral"

\* positions of the badges whose record has a function group without style
UnstyledBadges(b) ==
  {pos \in CellPositions(b) :
     products[RecordAt(b, pos)].function_group \notin DOMAIN FUNCTION_COLORS}

\* generate_html_body returned markup for the input and no lookup failed
RenderCompletes ==
  /\ pc # "raised"
  /\ pc = "rendered" =>
       /\ body.total = Len(products)
       /\ ~RaisesKeyError(body)

\* the function group shares its class name with a registered group
SlugOfRegistered(fg) ==
  \E k \in DOMAIN FUNCTION_GROUPS : slug(FUNCTION_GROUPS[k]) = slug(fg)

====
